---- MODULE Spec2Model ----
(***************************************************************************)
(* Model of the query builders generated by prkorm's #[derive(Table)]      *)
(* (src/src/lib.rs): the Select, Insert, Update and Delete builders, their  *)
(* chaining operations and their rendering functions.                       *)
(*                                                                          *)
(* A Rust String is modelled as a sequence of atoms.  An atom is either one *)
(* character of a caller-supplied string or one literal piece of a format!  *)
(* template (a keyword, a blank, a quote, ...), so that format! is sequence *)
(* concatenation and the rendered statement can be inspected token by token.*)
(* A Vec<String> is a sequence of such sequences.  A HashMap is a sequence  *)
(* of <<key, value>> pairs in the order its iterator yields them.           *)
(***************************************************************************)
EXTENDS Integers, Sequences, FiniteSets

VARIABLES
    schema,   \* the derive input: #[table_name], #[table_alias], #[primary_key], fields
    kind,     \* which builder the caller holds: "none", "select", "insert", "update", "delete"
    sel,      \* the <Struct>SelectBuilder value
    ins,      \* the <Struct>InsertBuilder value
    upd,      \* the <Struct>UpdateBuilder value
    del,      \* the <Struct>DeleteBuilder value
    out,      \* what the last rendering call gave back (none since the last chaining call)
    nops,     \* number of chaining calls made on the current builder
    hist      \* history of the calls the claims speak about (not program state)

vars == <<schema, kind, sel, ins, upd, del, out, nops, hist>>

----------------------------------------------------------------------------
(* Bounds of the model *)

\* chaining calls of any kind explored on one Select Builder
MaxOps == 2

\* fragments per list explored past MaxOps, on a builder made by select() and
\* extended by the raw-fragment operations and limit alone
MaxFrags == 2

\* chaining calls explored on one Insert or Update Builder
MaxStage == 3

\* values per column in an Insert Builder written as a struct literal
MaxRows == 2

----------------------------------------------------------------------------
(* Option<T> *)

None == <<>>

Some(x) == <<x>>

----------------------------------------------------------------------------
(* Strings *)

Whitespace == {" ", "\n", "\t"}

Digits == <<"0", "1", "2", "3", "4", "5", "6", "7", "8", "9">>

RECURSIVE DecStr(_)
\* Display of an unsigned integer
DecStr(n) ==
    IF n < 10 THEN <<Digits[n + 1]>>
    ELSE DecStr(n \div 10) \o <<Digits[(n % 10) + 1]>>

\* the caller's `impl ToString` arguments: a &str / String, or an unsigned integer
Str(s) == [t |-> "str", v |-> s]

U64(n) == [t |-> "u64", v |-> n]

to_string(a) ==
    IF a.t = "u64" THEN DecStr(a.v) ELSE a.v

UpperChar(c) ==
    CASE c = "a" -> "A"
      [] c = "m" -> "M"
      [] c = "x" -> "X"
      [] OTHER -> c

to_uppercase(s) ==
    [i \in DOMAIN s |-> UpperChar(s[i])]

RECURSIVE trim_start(_)
trim_start(s) ==
    IF s # <<>> /\ Head(s) \in Whitespace THEN trim_start(Tail(s)) ELSE s

RECURSIVE trim_end(_)
trim_end(s) ==
    IF s # <<>> /\ s[Len(s)] \in Whitespace
    THEN trim_end(SubSeq(s, 1, Len(s) - 1)) ELSE s

trim(s) == trim_end(trim_start(s))

is_empty(s) == Len(s) = 0

----------------------------------------------------------------------------
(* The derive input and the strings computed from it at expansion time *)

table(sc) == sc.table_name

\* #[table_alias("...")] when present, else the table name
table_as(sc) ==
    IF sc.table_alias # None THEN sc.table_alias[1] ELSE table(sc)

\* #[primary_key("...")] when present, else String::new()
primary_key_var(sc) ==
    IF sc.primary_key # None THEN sc.primary_key[1] ELSE <<>>

table_dot(sc) == table_as(sc) \o <<".">>

field_name_with_table(sc, f) == table_dot(sc) \o <<f>>

field_name_without_table(f) == <<f>>

RECURSIVE ReduceCommas(_)
\* .reduce(|acc, x| format!("{}, {}", acc, x)) over a non-empty iterator
ReduceCommas(xs) ==
    IF Len(xs) = 1 THEN xs[1]
    ELSE ReduceCommas(SubSeq(xs, 1, Len(xs) - 1)) \o <<",", " ">> \o xs[Len(xs)]

RECURSIVE ReduceCommasSwapped(_)
\* .reduce(|acc, x| format!("{}, {}", x, acc))
ReduceCommasSwapped(xs) ==
    IF Len(xs) = 1 THEN xs[1]
    ELSE xs[Len(xs)] \o <<",", " ">> \o ReduceCommasSwapped(SubSeq(xs, 1, Len(xs) - 1))

\* as field_names, with the accumulator and the item swapped in the reduce
field_names_swapped(sc) ==
    IF sc.fields = <<>> THEN <<"*">>
    ELSE ReduceCommasSwapped([i \in DOMAIN sc.fields |->
                                 field_name_with_table(sc, sc.fields[i])])

field_names(sc) ==
    IF sc.fields = <<>> THEN <<"*">>
    ELSE ReduceCommas([i \in DOMAIN sc.fields |-> field_name_with_table(sc, sc.fields[i])])

table_primary_key(sc) == primary_key_var(sc)

----------------------------------------------------------------------------
(* <Struct>SelectBuilder: chaining operations *)

\* as append_push, skipping a fragment the list already holds
append_push_dedup(list, fragment) ==
    LET conditions == <<>> \o list
    IN  IF \E i \in DOMAIN conditions : conditions[i] = fragment
        THEN conditions ELSE Append(conditions, fragment)

\* let mut conditions = Vec::new(); conditions.append(&mut self.<list>);
\* conditions.push(fragment); Self { <list>: conditions.clone(), ..self }
append_push(list, fragment) ==
    LET conditions == <<>> \o list
    IN  Append(conditions, fragment)

join_str(b, raw) ==
    [b EXCEPT !.joins = append_push(b.joins, <<"\n">> \o raw)]

having_str(b, having) ==
    [b EXCEPT !.having = append_push(b.having, having)]

where_str(b, where_query) ==
    [b EXCEPT !.where_conditions = append_push(b.where_conditions, where_query)]

group_by_str(b, group_by) ==
    [b EXCEPT !.group_by = append_push(b.group_by, group_by)]

order_by_str(b, order) ==
    [b EXCEPT !.order_by = append_push(b.order_by, order)]

select_function_as(b, function, over, alias) ==
    [b EXCEPT !.selected = b.selected \o <<",", " ">> \o to_uppercase(function)
                           \o <<"(">> \o over \o <<")", " ", "AS", " ">> \o alias]

select_as(b, selection, alias) ==
    [b EXCEPT !.selected = b.selected \o <<",", " ", "(">> \o selection
                           \o <<")", " ", "AS", " ">> \o alias]

select_str(b, raw) ==
    [b EXCEPT !.selected = b.selected \o <<",", " ">> \o raw]

\* as select_limit, keeping a limit the builder already has
select_limit_keeping(b, limit) ==
    IF b.limit = None THEN [b EXCEPT !.limit = Some(limit)] ELSE b

select_limit_unordering(b, limit) ==
    [b EXCEPT !.limit = Some(limit), !.order_by = <<>>]

select_limit(b, limit) ==
    [b EXCEPT !.limit = Some(limit)]

\* the ON condition of the primary-key joins: "{}.{} = {}.{}"
on_primary_key(b, tbl, primary_key) ==
    LET this_table == b.table_alias
    IN  tbl \o <<" ", "ON", " ">> \o tbl \o <<".">> \o primary_key
        \o <<" ", "=", " ">> \o this_table \o <<".">> \o b.primary_key

inner_join(b, tbl, primary_key) ==
    [b EXCEPT !.joins = append_push(b.joins,
        <<"\n", "INNER JOIN", " ">> \o on_primary_key(b, tbl, primary_key))]

join(b, tbl, primary_key) ==
    [b EXCEPT !.joins = append_push(b.joins,
        <<"\n", "JOIN", " ">> \o on_primary_key(b, tbl, primary_key))]

left_join(b, tbl, primary_key) ==
    [b EXCEPT !.joins = append_push(b.joins,
        <<"\n", "LEFT JOIN", " ">> \o on_primary_key(b, tbl, primary_key))]

right_join(b, tbl, primary_key) ==
    [b EXCEPT !.joins = append_push(b.joins,
        <<"\n", "RIGHT JOIN", " ">> \o on_primary_key(b, tbl, primary_key))]

full_join_outer(b, tbl, primary_key) ==
    [b EXCEPT !.joins = append_push(b.joins,
        <<"\n", "FULL JOIN", " ">> \o on_primary_key(b, tbl, primary_key))]

full_join(b, tbl, primary_key) ==
    [b EXCEPT !.joins = append_push(b.joins,
        <<"\n", "RIGHT JOIN", " ">> \o on_primary_key(b, tbl, primary_key))]

(* The operations generated once per field; fwt is that field's             *)
(* field_name_with_table.                                                   *)

select_field(b, fwt) ==
    [b EXCEPT !.selected = b.selected \o <<",", " ">> \o fwt]

select_field_as(b, fwt, alias) ==
    [b EXCEPT !.selected = b.selected \o <<",", " ", "(">> \o fwt
                           \o <<")", " ", "AS", " ">> \o alias]

select_function_over_field(b, fwt, function) ==
    [b EXCEPT !.selected = b.selected \o <<",", " ">> \o to_uppercase(function)
                           \o <<"(">> \o fwt \o <<")">>]

select_function_over_field_as(b, fwt, function, alias) ==
    [b EXCEPT !.selected = b.selected \o <<",", " ">> \o to_uppercase(function)
                           \o <<"(">> \o fwt \o <<")", " ", "AS", " ">> \o alias]

\* the ON condition of the field-scoped joins: "{}.{} = {}"
on_field(fwt, tbl, key) ==
    tbl \o <<" ", "ON", " ">> \o tbl \o <<".">> \o key \o <<" ", "=", " ">> \o fwt

inner_join_by_field(b, fwt, tbl, key) ==
    [b EXCEPT !.joins = append_push(b.joins,
        <<"\n", "INNER JOIN", " ">> \o on_field(fwt, tbl, key))]

join_by_field(b, fwt, tbl, key) ==
    [b EXCEPT !.joins = append_push(b.joins,
        <<"\n", "JOIN", " ">> \o on_field(fwt, tbl, key))]

left_join_by_field(b, fwt, tbl, key) ==
    [b EXCEPT !.joins = append_push(b.joins,
        <<"\n", "LEFT JOIN", " ">> \o on_field(fwt, tbl, key))]

right_join_by_field(b, fwt, tbl, key) ==
    [b EXCEPT !.joins = append_push(b.joins,
        <<"\n", "RIGHT JOIN", " ">> \o on_field(fwt, tbl, key))]

full_join_by_field(b, fwt, tbl, key) ==
    [b EXCEPT !.joins = append_push(b.joins,
        <<"\n", "FULL JOIN", " ">> \o on_field(fwt, tbl, key))]

order_by_field(b, fwt, order) ==
    [b EXCEPT !.order_by = append_push(b.order_by, fwt \o <<" ">> \o order)]

order_by_field_asc(b, fwt) ==
    [b EXCEPT !.order_by = append_push(b.order_by, fwt \o <<" ", "ASC">>)]

order_by_field_desc(b, fwt) ==
    [b EXCEPT !.order_by = append_push(b.order_by, fwt \o <<" ", "DESC">>)]

group_by_field(b, fwt) ==
    [b EXCEPT !.group_by = append_push(b.group_by, fwt)]

having_field(b, fwt, value) ==
    [b EXCEPT !.having = append_push(b.having,
        fwt \o <<" ", "=", " ", "'">> \o to_string(value) \o <<"'">>)]

\* as where_field_in, without the early return
where_field_in_unguarded(b, fwt, arg) ==
    LET where_in == to_string(arg)
    IN  [b EXCEPT !.where_conditions = append_push(b.where_conditions,
            fwt \o <<" ", "IN", " ", "(">> \o where_in \o <<")">>)]

where_field_in(b, fwt, arg) ==
    LET where_in == to_string(arg)
    IN  IF is_empty(trim(where_in)) THEN b
        ELSE [b EXCEPT !.where_conditions = append_push(b.where_conditions,
                 fwt \o <<" ", "IN", " ", "(">> \o where_in \o <<")">>)]

where_field(b, fwt, value) ==
    [b EXCEPT !.where_conditions = append_push(b.where_conditions,
        fwt \o <<" ", "=", " ", "'">> \o to_string(value) \o <<"'">>)]

where_field_condition(b, fwt, operator, value) ==
    [b EXCEPT !.where_conditions = append_push(b.where_conditions,
        fwt \o <<" ">> \o operator \o <<" ", "'">> \o to_string(value) \o <<"'">>)]

----------------------------------------------------------------------------
(* <Struct>SelectBuilder::build *)

limit_clause(limit) ==
    IF limit = None THEN <<>>
    ELSE <<" ", "\n", "LIMIT", " ">> \o DecStr(limit[1])

RECURSIVE where_query_loop(_, _, _)
where_query_loop(conds, i, acc) ==
    IF i >= Len(conds) THEN acc
    ELSE LET a1 == IF i = 0 THEN <<" ", "\n", "WHERE">> ELSE acc
             a2 == a1 \o <<" ">> \o conds[i + 1]
             a3 == IF i + 1 # Len(conds) THEN a2 \o <<" ", "AND">> ELSE a2
         IN  where_query_loop(conds, i + 1, a3)

RECURSIVE joins_loop(_, _, _)
joins_loop(js, i, acc) ==
    IF i >= Len(js) THEN acc
    ELSE LET a1 == IF i = 0 THEN <<" ">> ELSE acc
             a2 == a1 \o <<" ">> \o js[i + 1] \o <<" ">>
         IN  joins_loop(js, i + 1, a2)

RECURSIVE group_by_loop(_, _, _)
group_by_loop(gs, i, acc) ==
    IF i >= Len(gs) THEN acc
    ELSE LET a1 == IF i = 0 THEN <<" ", "\n", "GROUP BY">> ELSE acc
             a2 == a1 \o <<" ">> \o gs[i + 1]
             a3 == IF i + 1 # Len(gs) THEN a2 \o <<",">> ELSE a2
         IN  group_by_loop(gs, i + 1, a3)

RECURSIVE order_by_loop(_, _, _)
order_by_loop(os, i, acc) ==
    IF i >= Len(os) THEN acc
    ELSE LET a1 == IF i = 0 THEN <<" ", "\n", "ORDER BY">> ELSE acc
             a2 == a1 \o <<" ">> \o os[i + 1]
             a3 == IF i + 1 # Len(os) THEN a2 \o <<",">> ELSE a2
         IN  order_by_loop(os, i + 1, a3)

RECURSIVE having_loop_trailing(_, _, _)
\* as having_loop, with AND after every condition, the last included
having_loop_trailing(hs, i, acc) ==
    IF i >= Len(hs) THEN acc
    ELSE LET a1 == IF i = 0 THEN <<" ", "\n", "HAVING">> ELSE acc
             a2 == a1 \o <<" ">> \o hs[i + 1] \o <<" ", "AND">>
         IN  having_loop_trailing(hs, i + 1, a2)

RECURSIVE having_loop(_, _, _)
having_loop(hs, i, acc) ==
    IF i >= Len(hs) THEN acc
    ELSE LET a1 == IF i = 0 THEN <<" ", "\n", "HAVING">> ELSE acc
             a2 == a1 \o <<" ">> \o hs[i + 1]
             a3 == IF i + 1 # Len(hs) THEN a2 \o <<" ", "AND">> ELSE a2
         IN  having_loop(hs, i + 1, a3)

\* as this_table, without the comparison with the table name
this_table_always(b) == b.table_alias

this_table(b) ==
    IF b.table_alias = b.table THEN <<>> ELSE b.table_alias

\* as build_format, with the HAVING and ORDER BY clauses in each other's place
build_format_swapped(selected, tbl, alias, joins, where_query, group_by, having, order_by, limit) ==
    <<"SELECT", " ">> \o selected \o <<" ", "\n", "FROM", " ">> \o tbl \o <<" ">>
    \o alias \o joins \o where_query \o group_by \o order_by \o having \o limit

\* format!("SELECT {} \nFROM {} {}{}{}{}{}{}{}", ...)
build_format(selected, tbl, alias, joins, where_query, group_by, having, order_by, limit) ==
    <<"SELECT", " ">> \o selected \o <<" ", "\n", "FROM", " ">> \o tbl \o <<" ">>
    \o alias \o joins \o where_query \o group_by \o having \o order_by \o limit

select_build(b) ==
    build_format(b.selected, b.table, this_table(b),
                 joins_loop(b.joins, 0, <<>>),
                 where_query_loop(b.where_conditions, 0, <<>>),
                 group_by_loop(b.group_by, 0, <<>>),
                 having_loop(b.having, 0, <<>>),
                 order_by_loop(b.order_by, 0, <<>>),
                 limit_clause(b.limit))

\* as self_after_build, had build() drained the lists the way the chaining
\* operations do (conditions.append(&mut self.<list>))
self_after_build_drained(b) ==
    [b EXCEPT !.where_conditions = <<>>, !.joins = <<>>, !.group_by = <<>>,
              !.order_by = <<>>, !.having = <<>>]

\* build(&self): the receiver is borrowed immutably and only read
self_after_build(b) == b

----------------------------------------------------------------------------
(* The static constructors of the Select Builder *)

new_select_builder(sc, selected) ==
    [ selected         |-> selected,
      joins            |-> <<>>,
      primary_key      |-> table_primary_key(sc),
      table            |-> table(sc),
      table_alias      |-> table_as(sc),
      limit            |-> None,
      where_conditions |-> <<>>,
      group_by         |-> <<>>,
      order_by         |-> <<>>,
      having           |-> <<>> ]

select(sc) == new_select_builder(sc, field_names(sc))

select_function_over_field_name(sc, function, over) ==
    new_select_builder(sc, to_uppercase(function) \o <<"(">> \o over \o <<")">>)

select_function_over_field_name_as(sc, function, over, alias) ==
    new_select_builder(sc, to_uppercase(function) \o <<"(">> \o over
                           \o <<")", " ", "AS", " ">> \o alias)

static_select_str(sc, raw) == new_select_builder(sc, raw)

static_select_str_as(sc, raw, alias) ==
    new_select_builder(sc, <<"(">> \o raw \o <<")", " ", "AS", " ">> \o alias)

static_select_field(sc, f) ==
    new_select_builder(sc, field_name_with_table(sc, f))

static_select_function_over_field(sc, f, function) ==
    new_select_builder(sc, to_uppercase(function) \o <<"(">>
                           \o field_name_with_table(sc, f) \o <<")">>)

static_select_function_over_field_as(sc, f, function, alias) ==
    new_select_builder(sc, to_uppercase(function) \o <<"(">>
                           \o field_name_with_table(sc, f)
                           \o <<")", " ", "AS", " ">> \o alias)

----------------------------------------------------------------------------
(* std::collections::HashMap, as the sequence of <<key, value>> pairs its   *)
(* iterator yields.  Where a new key lands among the others depends on the  *)
(* map's per-instance random hash keys, so it is any position.              *)

contains_key(m, k) == \E i \in DOMAIN m : m[i][1] = k

insert_at(m, p, kv) ==
    SubSeq(m, 1, p - 1) \o <<kv>> \o SubSeq(m, p, Len(m))

\* as entry_or_insert, with insert(k, v) in place of entry(k).or_insert(v)
entry_or_insert_overwriting(m, k, v) ==
    IF contains_key(m, k)
    THEN {[i \in DOMAIN m |-> IF m[i][1] = k THEN <<k, v>> ELSE m[i]]}
    ELSE {insert_at(m, p, <<k, v>>) : p \in 1..(Len(m) + 1)}

\* m.entry(k).or_insert(v): the maps that can result
entry_or_insert(m, k, v) ==
    IF contains_key(m, k) THEN {m}
    ELSE {insert_at(m, p, <<k, v>>) : p \in 1..(Len(m) + 1)}

\* Clone for HashMap copies the table bucket for bucket and the hasher with it
hash_clone(m) == m

into_iter(m) == m

----------------------------------------------------------------------------
(* <Struct>InsertBuilder *)

insert(sc) ==
    [ selected |-> <<>>, table |-> table(sc), limit |-> None, order_by |-> <<>> ]

insert_limit(b, limit) == [b EXCEPT !.limit = Some(limit)]

\* as insert_to_field, pushing the value onto the vector of a staged column
insert_to_field_pushing(b, f, value) ==
    LET selected == hash_clone(b.selected)
        k        == field_name_without_table(f)
    IN  IF contains_key(selected, k)
        THEN { [b EXCEPT !.selected =
                  [i \in DOMAIN selected |->
                      IF selected[i][1] = k
                      THEN <<k, Append(selected[i][2], to_string(value))>>
                      ELSE selected[i]]] }
        ELSE { [b EXCEPT !.selected = m] :
                 m \in entry_or_insert(selected, k, <<to_string(value)>>) }

\* insert_to_<field>: the builders that can result
insert_to_field(b, f, value) ==
    LET selected == hash_clone(b.selected)
    IN  { [b EXCEPT !.selected = m] :
            m \in entry_or_insert(selected, field_name_without_table(f),
                                  <<to_string(value)>>) }

insert_order_by_field(b, fwt, order) ==
    [b EXCEPT !.order_by = append_push(b.order_by, fwt \o <<" ">> \o order)]

insert_order_by_field_asc(b, fwt) ==
    [b EXCEPT !.order_by = append_push(b.order_by, fwt \o <<" ", "ASC">>)]

insert_order_by_field_desc(b, fwt) ==
    [b EXCEPT !.order_by = append_push(b.order_by, fwt \o <<" ", "DESC">>)]

(* What a rendering call gives back *)

NoOut == [status |-> "none", text |-> <<>>]

Ok(text) == [status |-> "ok", text |-> text]

Panic(msg) == [status |-> "panic", text |-> <<msg>>]

RECURSIVE keys_loop_reversed(_, _, _, _)
\* as keys_loop, over an iteration in the reverse of the order of `it`
keys_loop_reversed(it, i, keys, len) ==
    IF i >= Len(it) THEN keys
    ELSE LET k1 == keys \o it[Len(it) - i][1]
             k2 == IF i + 1 # len THEN k1 \o <<",", " ">> ELSE k1
         IN  keys_loop_reversed(it, i + 1, k2, len)

RECURSIVE keys_loop(_, _, _, _)
keys_loop(it, i, keys, len) ==
    IF i >= Len(it) THEN keys
    ELSE LET k1 == keys \o it[i + 1][1]
             k2 == IF i + 1 # len THEN k1 \o <<",", " ">> ELSE k1
         IN  keys_loop(it, i + 1, k2, len)

RECURSIVE tuple_loop(_, _, _)
tuple_loop(item, j, value) ==
    IF j >= Len(item) THEN value
    ELSE LET v1 == value \o <<"'">> \o item[j + 1] \o <<"'">>
             v2 == IF j + 1 # Len(item) THEN v1 \o <<",", " ">> ELSE v1
         IN  tuple_loop(item, j + 1, v2)

RECURSIVE values_loop(_, _, _)
values_loop(results, i, values) ==
    IF i >= Len(results) THEN values
    ELSE LET value == tuple_loop(results[i + 1], 0, <<>>)
             v1 == values \o <<" ", "(">> \o value \o <<")">>
             v2 == IF i + 1 # Len(results) THEN v1 \o <<",">> ELSE v1
         IN  values_loop(results, i + 1, v2)

insert_format(tbl, keys, values) ==
    <<"INSERT INTO", " ">> \o tbl \o <<"\n", "(">> \o keys
    \o <<")", " ", "VALUES", " ">> \o values

insert_build(b) ==
    LET keys   == keys_loop(into_iter(hash_clone(b.selected)), 0, <<>>, Len(b.selected))
        it     == into_iter(hash_clone(b.selected))
        inputs == [j \in DOMAIN it |-> it[j][2]]
    IN  IF inputs = <<>>
        THEN Panic("called Option::unwrap() on a None value")
        ELSE LET nrows == Len(inputs[1])
             IN  IF \E i \in 0..(nrows - 1) : \E j \in DOMAIN inputs : i >= Len(inputs[j])
                 THEN Panic("index out of bounds")
                 ELSE LET results == [i \in 1..nrows |->
                                         [j \in DOMAIN inputs |-> inputs[j][i]]]
                      IN  Ok(insert_format(b.table, keys, values_loop(results, 0, <<>>)))

----------------------------------------------------------------------------
(* <Struct>UpdateBuilder *)

update(sc) == [ selected |-> <<>>, table |-> table(sc) ]

\* update_<field>_with_value: the builders that can result
update_field_with_value(b, f, value) ==
    LET selected == hash_clone(b.selected)
    IN  { [b EXCEPT !.selected = m] :
            m \in entry_or_insert(selected, field_name_without_table(f),
                                  to_string(value)) }

RECURSIVE set_values_loop(_, _, _, _)
set_values_loop(it, i, set_values, len) ==
    IF i >= Len(it) THEN set_values
    ELSE LET s1 == set_values \o it[i + 1][1] \o <<" ", "=", " ", "'">>
                   \o it[i + 1][2] \o <<"'">>
             s2 == IF i + 1 # len THEN s1 \o <<",", " ">> ELSE s1
         IN  set_values_loop(it, i + 1, s2, len)

update_where_field_eq(b, f, value) ==
    LET set_values == set_values_loop(into_iter(hash_clone(b.selected)), 0, <<>>,
                                      Len(b.selected))
    IN  Ok(<<"UPDATE", " ">> \o b.table \o <<" ", "SET", " ">> \o set_values
           \o <<" ", "\n", "WHERE", " ">> \o field_name_without_table(f)
           \o <<" ", "=", " ", "'">> \o to_string(value) \o <<"'">>)

update_where_str(b, where_condition) ==
    LET set_values == set_values_loop(into_iter(hash_clone(b.selected)), 0, <<>>,
                                      Len(b.selected))
    IN  Ok(<<"UPDATE", " ">> \o b.table \o <<" ", "SET", " ">> \o set_values
           \o <<" ", "WHERE", " ">> \o where_condition)

----------------------------------------------------------------------------
(* <Struct>DeleteBuilder *)

delete(sc) == [ table |-> table(sc) ]

delete_where_str(b, raw) ==
    Ok(<<"DELETE FROM", " ">> \o b.table \o <<" ", "WHERE", " ">> \o raw)

delete_where_field_eq_qualified(b, f, value) ==
    Ok(<<"DELETE FROM", " ">> \o b.table \o <<" ", "WHERE", " ">>
       \o b.table \o <<".">> \o field_name_without_table(f)
       \o <<" ", "=", " ", "'">> \o to_string(value) \o <<"'">>)

delete_where_field_eq(b, f, value) ==
    Ok(<<"DELETE FROM", " ">> \o b.table \o <<" ", "WHERE", " ">>
       \o field_name_without_table(f) \o <<" ", "=", " ", "'">>
       \o to_string(value) \o <<"'">>)

----------------------------------------------------------------------------
(* The derive inputs and call arguments explored *)

Schemas ==
    [ table_name  : {<<"orders">>},
      table_alias : {None, Some(<<"o">>)},
      primary_key : {None, Some(<<"id">>)},
      fields      : {<<>>, <<"id", "cid">>} ]

\* the declared fields
Fields == {schema.fields[i] : i \in DOMAIN schema.fields}

\* the field whose generated operations are explored where one field is enough
OneField == {schema.fields[i] : i \in {Len(schema.fields)} \ {0}}

FWT(f) == field_name_with_table(schema, f)

JoinTables == {<<"c">>}

JoinKeys == {<<"k">>}

RawJoins == {<<"CROSS JOIN", " ", "c">>}

RawWheres == {<<"w">>, <<"v">>}

RawHavings == {<<"h">>}

RawGroups == {<<"g">>}

RawOrders == {<<"r">>}

RawSelects == {<<"s">>}

\* the select: &str given to the static select_str, the empty string included
SeedSelects == RawSelects \cup {<<>>}

Functions == {<<"m", "a", "x">>}

Aliases == {<<"z">>}

Orders == {<<"d">>}

Operators == {<<"!=">>}

Values == {Str(<<"a">>), U64(10)}

WhereIns == {Str(<<>>), Str(<<" ", "\n">>), Str(<<" ", "q", " ">>), U64(5)}

Limits == {0, 10}

----------------------------------------------------------------------------
(* State machine *)

NoSelect == new_select_builder([table_name |-> <<>>, table_alias |-> None,
                                primary_key |-> None, fields |-> <<>>], <<>>)

NoInsert == [ selected |-> <<>>, table |-> <<>>, limit |-> None, order_by |-> <<>> ]

NoUpdate == [ selected |-> <<>>, table |-> <<>> ]

NoDelete == [ table |-> <<>> ]

\* ctor: the static constructor called; calls: the where, staging and terminal
\* calls made, in call order; joins: the join calls made, in call order;
\* limits: the arguments of the limit calls made, in call order; raw_only:
\* select() followed by nothing but raw-fragment operations and limit
NoHist ==
    [ ctor |-> "", calls |-> <<>>, joins |-> <<>>, limits |-> <<>>,
      raw_only |-> FALSE ]

Init ==
    /\ schema \in Schemas
    /\ kind = "none"
    /\ sel = NoSelect
    /\ ins = NoInsert
    /\ upd = NoUpdate
    /\ del = NoDelete
    /\ out = NoOut
    /\ nops = 0
    /\ hist = NoHist

(* Static constructors *)

NewSelect(ctor, b) ==
    /\ kind = "none"
    /\ kind' = "select"
    /\ sel' = b
    /\ hist' = [hist EXCEPT !.ctor = ctor, !.raw_only = (ctor = "select")]
    /\ UNCHANGED <<schema, ins, upd, del, out, nops>>

Select == NewSelect("select", select(schema))

SelectFunctionOverFieldName ==
    \E fn \in Functions, over \in RawSelects :
        NewSelect("select_function_over_field_name",
                  select_function_over_field_name(schema, fn, over))

SelectFunctionOverFieldNameAs ==
    \E fn \in Functions, over \in RawSelects, a \in Aliases :
        NewSelect("select_function_over_field_name_as",
                  select_function_over_field_name_as(schema, fn, over, a))

StaticSelectStr ==
    \E raw \in SeedSelects :
        NewSelect("select_str", static_select_str(schema, raw))

StaticSelectStrAs ==
    \E raw \in RawSelects, a \in Aliases :
        NewSelect("select_str_as", static_select_str_as(schema, raw, a))

StaticSelectField ==
    \E f \in Fields :
        NewSelect("select_field", static_select_field(schema, f))

StaticSelectFunctionOverField ==
    \E f \in OneField, fn \in Functions :
        NewSelect("select_function_over_field",
                  static_select_function_over_field(schema, f, fn))

StaticSelectFunctionOverFieldAs ==
    \E f \in OneField, fn \in Functions, a \in Aliases :
        NewSelect("select_function_over_field_as",
                  static_select_function_over_field_as(schema, f, fn, a))

Insert ==
    /\ kind = "none"
    /\ kind' = "insert"
    /\ ins' = insert(schema)
    /\ hist' = [hist EXCEPT !.ctor = "insert"]
    /\ UNCHANGED <<schema, sel, upd, del, out, nops>>

Update ==
    /\ kind = "none"
    /\ kind' = "update"
    /\ upd' = update(schema)
    /\ hist' = [hist EXCEPT !.ctor = "update"]
    /\ UNCHANGED <<schema, sel, ins, del, out, nops>>

Delete ==
    /\ kind = "none"
    /\ kind' = "delete"
    /\ del' = delete(schema)
    /\ hist' = [hist EXCEPT !.ctor = "delete"]
    /\ UNCHANGED <<schema, sel, ins, upd, out, nops>>

(* Chaining operations of the Select Builder *)

Chained(b) ==
    /\ kind = "select"
    /\ sel' = b
    /\ nops' = nops + 1
    /\ out' = NoOut
    /\ UNCHANGED <<schema, kind, ins, upd, del>>

\* a chaining call; calls: what it adds to the call history
Chain(b, calls) ==
    /\ nops < MaxOps
    /\ Chained(b)
    /\ hist' = [hist EXCEPT !.calls = @ \o calls, !.raw_only = FALSE]

\* a raw-fragment call or limit; room: whether its list may still grow past MaxOps
ChainRaw(b, calls, room) ==
    /\ nops < MaxOps \/ (hist.raw_only /\ room)
    /\ Chained(b)
    /\ hist' = [hist EXCEPT !.calls = @ \o calls]

JoinCall(op, tbl, key, on) == [op |-> op, tbl |-> tbl, key |-> key, on |-> on]

\* a join call other than join_str
ChainJoin(b, call) ==
    /\ nops < MaxOps
    /\ Chained(b)
    /\ hist' = [hist EXCEPT !.joins = Append(@, call), !.raw_only = FALSE]

WhereCall(op, fwt, operator, arg) ==
    [op |-> op, fwt |-> fwt, operator |-> operator, arg |-> arg]

JoinStr ==
    \E raw \in RawJoins :
        /\ nops < MaxOps \/ (hist.raw_only /\ Len(sel.joins) < MaxFrags)
        /\ Chained(join_str(sel, raw))
        /\ hist' = [hist EXCEPT !.joins = Append(@, JoinCall("join_str", raw, <<>>, <<>>))]

HavingStr ==
    \E raw \in RawHavings :
        ChainRaw(having_str(sel, raw), <<>>, Len(sel.having) < MaxFrags)

WhereStr ==
    \E raw \in RawWheres :
        ChainRaw(where_str(sel, raw), <<WhereCall("where_str", <<>>, <<>>, Str(raw))>>,
                 Len(sel.where_conditions) < MaxFrags)

GroupByStr ==
    \E raw \in RawGroups :
        ChainRaw(group_by_str(sel, raw), <<>>, Len(sel.group_by) < MaxFrags)

OrderByStr ==
    \E raw \in RawOrders :
        ChainRaw(order_by_str(sel, raw), <<>>, Len(sel.order_by) < MaxFrags)

Limit ==
    \E n \in Limits :
        /\ nops < MaxOps \/ (hist.raw_only /\ Len(hist.limits) < MaxFrags)
        /\ Chained(select_limit(sel, n))
        /\ hist' = [hist EXCEPT !.limits = Append(@, n)]

SelectFunctionAs ==
    \E fn \in Functions, over \in RawSelects, a \in Aliases :
        Chain(select_function_as(sel, fn, over, a), <<>>)

SelectAs ==
    \E raw \in RawSelects, a \in Aliases :
        Chain(select_as(sel, raw, a), <<>>)

SelectStr ==
    \E raw \in RawSelects : Chain(select_str(sel, raw), <<>>)

\* as HasPrimaryKeyJoins, without the test of primary_key_var
PrimaryKeyJoinsAlways == TRUE

\* the primary-key joins are generated only if primary_key_var.len() > 0
HasPrimaryKeyJoins == Len(primary_key_var(schema)) > 0

InnerJoin ==
    /\ HasPrimaryKeyJoins
    /\ \E t \in JoinTables, k \in JoinKeys : ChainJoin(inner_join(sel, t, k), JoinCall("inner_join", t, k, <<>>))

Join ==
    /\ HasPrimaryKeyJoins
    /\ \E t \in JoinTables, k \in JoinKeys : ChainJoin(join(sel, t, k), JoinCall("join", t, k, <<>>))

LeftJoin ==
    /\ HasPrimaryKeyJoins
    /\ \E t \in JoinTables, k \in JoinKeys : ChainJoin(left_join(sel, t, k), JoinCall("left_join", t, k, <<>>))

RightJoin ==
    /\ HasPrimaryKeyJoins
    /\ \E t \in JoinTables, k \in JoinKeys : ChainJoin(right_join(sel, t, k), JoinCall("right_join", t, k, <<>>))

FullJoin ==
    /\ HasPrimaryKeyJoins
    /\ \E t \in JoinTables, k \in JoinKeys : ChainJoin(full_join(sel, t, k), JoinCall("full_join", t, k, <<>>))

SelectField ==
    \E f \in Fields : Chain(select_field(sel, FWT(f)), <<>>)

SelectFieldAs ==
    \E f \in OneField, a \in Aliases :
        Chain(select_field_as(sel, FWT(f), a), <<>>)

SelectFunctionOverField ==
    \E f \in OneField, fn \in Functions :
        Chain(select_function_over_field(sel, FWT(f), fn), <<>>)

SelectFunctionOverFieldAs ==
    \E f \in OneField, fn \in Functions, a \in Aliases :
        Chain(select_function_over_field_as(sel, FWT(f), fn, a), <<>>)

InnerJoinByField ==
    \E f \in OneField, t \in JoinTables, k \in JoinKeys :
        ChainJoin(inner_join_by_field(sel, FWT(f), t, k),
                  JoinCall("inner_join_by_field", t, k, FWT(f)))

JoinByField ==
    \E f \in OneField, t \in JoinTables, k \in JoinKeys :
        ChainJoin(join_by_field(sel, FWT(f), t, k),
                  JoinCall("join_by_field", t, k, FWT(f)))

LeftJoinByField ==
    \E f \in OneField, t \in JoinTables, k \in JoinKeys :
        ChainJoin(left_join_by_field(sel, FWT(f), t, k),
                  JoinCall("left_join_by_field", t, k, FWT(f)))

RightJoinByField ==
    \E f \in OneField, t \in JoinTables, k \in JoinKeys :
        ChainJoin(right_join_by_field(sel, FWT(f), t, k),
                  JoinCall("right_join_by_field", t, k, FWT(f)))

FullJoinByField ==
    \E f \in OneField, t \in JoinTables, k \in JoinKeys :
        ChainJoin(full_join_by_field(sel, FWT(f), t, k),
                  JoinCall("full_join_by_field", t, k, FWT(f)))

OrderByField ==
    \E f \in OneField, o \in Orders :
        Chain(order_by_field(sel, FWT(f), o), <<>>)

OrderByFieldAsc ==
    \E f \in OneField : Chain(order_by_field_asc(sel, FWT(f)), <<>>)

OrderByFieldDesc ==
    \E f \in OneField : Chain(order_by_field_desc(sel, FWT(f)), <<>>)

GroupByField ==
    \E f \in OneField : Chain(group_by_field(sel, FWT(f)), <<>>)

HavingField ==
    \E f \in OneField, v \in Values :
        Chain(having_field(sel, FWT(f), v), <<>>)

WhereFieldIn ==
    \E f \in Fields, a \in WhereIns :
        Chain(where_field_in(sel, FWT(f), a),
              <<WhereCall("where_field_in", FWT(f), <<>>, a)>>)

WhereField ==
    \E f \in Fields, v \in Values :
        Chain(where_field(sel, FWT(f), v),
              <<WhereCall("where_field", FWT(f), <<>>, v)>>)

WhereFieldCondition ==
    \E f \in OneField, o \in Operators, v \in Values :
        Chain(where_field_condition(sel, FWT(f), o, v),
              <<WhereCall("where_field_condition", FWT(f), o, v)>>)

\* build(&self) -> String: the builder stays with the caller
Build ==
    /\ kind = "select"
    /\ out' = Ok(select_build(sel))
    /\ sel' = self_after_build(sel)
    /\ UNCHANGED <<schema, kind, ins, upd, del, nops, hist>>

(* Operations of the Insert Builder *)

ChainInsert(b, calls) ==
    /\ kind = "insert"
    /\ nops < MaxStage
    /\ ins' = b
    /\ nops' = nops + 1
    /\ hist' = [hist EXCEPT !.calls = @ \o calls]
    /\ UNCHANGED <<schema, kind, sel, upd, del, out>>

StageCall(op, f, arg) == [op |-> op, f |-> f, arg |-> arg]

InsertLimit ==
    \E n \in Limits : ChainInsert(insert_limit(ins, n), <<>>)

InsertToField ==
    \E f \in Fields, v \in Values :
        \E b \in insert_to_field(ins, f, v) :
            ChainInsert(b, <<StageCall("insert_to", f, v)>>)

InsertOrderByField ==
    \E f \in OneField, o \in Orders :
        ChainInsert(insert_order_by_field(ins, FWT(f), o), <<>>)

InsertOrderByFieldAsc ==
    \E f \in OneField :
        ChainInsert(insert_order_by_field_asc(ins, FWT(f)), <<>>)

InsertOrderByFieldDesc ==
    \E f \in OneField :
        ChainInsert(insert_order_by_field_desc(ins, FWT(f)), <<>>)

\* build(self) -> String: consumes the builder
InsertBuild ==
    /\ kind = "insert"
    /\ kind' = "done"
    /\ out' = insert_build(ins)
    /\ UNCHANGED <<schema, sel, ins, upd, del, nops, hist>>

(* Operations of the Update Builder *)

UpdateFieldWithValue ==
    \E f \in Fields, v \in Values :
        \E b \in update_field_with_value(upd, f, v) :
            /\ kind = "update"
            /\ nops < MaxStage
            /\ upd' = b
            /\ nops' = nops + 1
            /\ hist' = [hist EXCEPT !.calls = Append(@, StageCall("update_with_value", f, v))]
            /\ UNCHANGED <<schema, kind, sel, ins, del, out>>

\* a terminal call: consumes the builder and gives the statement
Terminal(k, result, call) ==
    /\ kind = k
    /\ kind' = "done"
    /\ out' = result
    /\ hist' = [hist EXCEPT !.calls = Append(@, call)]
    /\ UNCHANGED <<schema, sel, ins, upd, del, nops>>

UpdateWhereFieldEq ==
    \E f \in Fields, v \in Values :
        Terminal("update", update_where_field_eq(upd, f, v),
                 StageCall("update_where_eq", f, v))

UpdateWhereStr ==
    \E raw \in RawWheres :
        Terminal("update", update_where_str(upd, raw),
                 StageCall("where_str", "", Str(raw)))

(* Operations of the Delete Builder *)

DeleteWhereStr ==
    \E raw \in RawWheres :
        Terminal("delete", delete_where_str(del, raw),
                 StageCall("delete_where_str", "", Str(raw)))

DeleteWhereFieldEq ==
    \E f \in Fields, v \in Values :
        Terminal("delete", delete_where_field_eq(del, f, v),
                 StageCall("delete_where_eq", f, v))

Next ==
    \/ Select
    \/ SelectFunctionOverFieldName
    \/ SelectFunctionOverFieldNameAs
    \/ StaticSelectStr
    \/ StaticSelectStrAs
    \/ StaticSelectField
    \/ StaticSelectFunctionOverField
    \/ StaticSelectFunctionOverFieldAs
    \/ Insert
    \/ Update
    \/ Delete
    \/ JoinStr
    \/ HavingStr
    \/ WhereStr
    \/ GroupByStr
    \/ OrderByStr
    \/ SelectFunctionAs
    \/ SelectAs
    \/ SelectStr
    \/ Limit
    \/ InnerJoin
    \/ Join
    \/ LeftJoin
    \/ RightJoin
    \/ FullJoin
    \/ SelectField
    \/ SelectFieldAs
    \/ SelectFunctionOverField
    \/ SelectFunctionOverFieldAs
    \/ InnerJoinByField
    \/ JoinByField
    \/ LeftJoinByField
    \/ RightJoinByField
    \/ FullJoinByField
    \/ OrderByField
    \/ OrderByFieldAsc
    \/ OrderByFieldDesc
    \/ GroupByField
    \/ HavingField
    \/ WhereFieldIn
    \/ WhereField
    \/ WhereFieldCondition
    \/ Build
    \/ InsertLimit
    \/ InsertToField
    \/ InsertOrderByField
    \/ InsertOrderByFieldAsc
    \/ InsertOrderByFieldDesc
    \/ InsertBuild
    \/ UpdateFieldWithValue
    \/ UpdateWhereFieldEq
    \/ UpdateWhereStr
    \/ DeleteWhereStr
    \/ DeleteWhereFieldEq

Spec == Init /\ [][Next]_vars

----------------------------------------------------------------------------
(* Reading a rendered statement *)

NotWhitespace(c) == c \notin Whitespace

\* the statement without its blanks and line breaks
NoWs(s) == SelectSeq(s, NotWhitespace)

\* the string form is empty or only whitespace
Blank(s) == \A i \in DOMAIN s : s[i] \in Whitespace

Positions(s, toks) == {i \in DOMAIN s : s[i] \in toks}

JoinKw == {"JOIN", "INNER JOIN", "LEFT JOIN", "RIGHT JOIN", "FULL JOIN", "CROSS JOIN"}

\* the keywords that open the clauses after FROM and the joins
TailKw == {"WHERE", "GROUP BY", "HAVING", "ORDER BY", "LIMIT"}

\* the clauses in the order the statement must have them
ClauseOrder ==
    << {"SELECT"}, {"FROM"}, JoinKw, {"WHERE"}, {"GROUP BY"}, {"HAVING"},
       {"ORDER BY"}, {"LIMIT"} >>

\* the part of s from the first token in toks up to the next token in stops
Segment(s, toks, stops) ==
    LET starts == Positions(s, toks)
    IN  IF starts = {} THEN <<>>
        ELSE LET a    == CHOOSE i \in starts : \A j \in starts : i <= j
                 ends == {i \in Positions(s, stops) : i > a}
                 b    == IF ends = {} THEN Len(s) + 1
                         ELSE CHOOSE i \in ends : \A j \in ends : i <= j
             IN  SubSeq(s, a, b - 1)

RECURSIVE SepBy(_, _)
\* the strings of xs one after the other with sep between each two
SepBy(xs, sep) ==
    IF xs = <<>> THEN <<>>
    ELSE IF Len(xs) = 1 THEN xs[1]
    ELSE xs[1] \o sep \o SepBy(Tail(xs), sep)

\* a Select Builder is held and its statement has just been rendered
Rendered == kind = "select" /\ out.status = "ok"

DeclaredAlias ==
    IF schema.table_alias = None THEN schema.table_name ELSE schema.table_alias[1]

----------------------------------------------------------------------------
(* Claims *)

\* C1: build() emits the clauses in the order SELECT, FROM, joins, WHERE,
\* GROUP BY, HAVING, ORDER BY, LIMIT, whatever the order of the chaining calls;
\* SELECT and FROM are always there, the joins, WHERE, GROUP BY, HAVING and
\* ORDER BY clauses are there exactly when their list is non-empty, and LIMIT
\* exactly when the limit is set (limit 0 included).
C1_ClauseOrderAndPresence ==
    Rendered =>
        LET t      == out.text
            Pos(k) == Positions(t, ClauseOrder[k])
        IN  /\ \A k1, k2 \in DOMAIN ClauseOrder :
                  k1 < k2 => \A i \in Pos(k1), j \in Pos(k2) : i < j
            /\ Cardinality(Pos(1)) = 1
            /\ Cardinality(Pos(2)) = 1
            /\ Cardinality(Pos(3)) = Len(sel.joins)
            /\ Cardinality(Pos(4)) = (IF sel.where_conditions # <<>> THEN 1 ELSE 0)
            /\ Cardinality(Pos(5)) = (IF sel.group_by # <<>> THEN 1 ELSE 0)
            /\ Cardinality(Pos(6)) = (IF sel.having # <<>> THEN 1 ELSE 0)
            /\ Cardinality(Pos(7)) = (IF sel.order_by # <<>> THEN 1 ELSE 0)
            /\ Cardinality(Pos(8)) = (IF sel.limit # None THEN 1 ELSE 0)

\* C1 witness: a statement with every clause, the limit being 0
C1_Witness ==
    /\ Rendered
    /\ sel.joins # <<>>
    /\ Len(sel.where_conditions) = 2
    /\ sel.group_by # <<>>
    /\ sel.having # <<>>
    /\ sel.order_by # <<>>
    /\ sel.limit = Some(0)

\* C2: for a non-empty column list, select() followed directly by build()
\* renders SELECT, the columns as qualified names in declaration order with
\* commas between them, FROM and the table, and no further clause.
C2_SelectAllColumns ==
    (Rendered /\ hist.ctor = "select" /\ nops = 0 /\ schema.fields # <<>>) =>
        LET t    == NoWs(out.text)
            cols == [i \in DOMAIN schema.fields |->
                        DeclaredAlias \o <<".", schema.fields[i]>>]
            pre  == <<"SELECT">> \o SepBy(cols, <<",">>) \o <<"FROM">>
                    \o schema.table_name
        IN  /\ Len(t) >= Len(pre)
            /\ SubSeq(t, 1, Len(pre)) = pre
            /\ Positions(t, JoinKw \cup TailKw) = {}

\* C2 witness: select().build() on a record with two columns and an alias
C2_Witness ==
    /\ Rendered
    /\ hist.ctor = "select"
    /\ nops = 0
    /\ Len(schema.fields) = 2
    /\ schema.table_alias # None

\* the where calls that add a fragment, in call order
IsWhereCall(c) ==
    /\ c.op \in {"where_field", "where_field_condition", "where_field_in", "where_str"}
    /\ ~(c.op = "where_field_in" /\ Blank(to_string(c.arg)))

\* the fragment the description of each where operation gives
WhereFragment(c) ==
    CASE c.op = "where_field" ->
             c.fwt \o <<" ", "=", " ", "'">> \o to_string(c.arg) \o <<"'">>
      [] c.op = "where_field_condition" ->
             c.fwt \o <<" ">> \o c.operator \o <<" ", "'">> \o to_string(c.arg) \o <<"'">>
      [] c.op = "where_field_in" ->
             c.fwt \o <<" ", "IN", " ", "(">> \o to_string(c.arg) \o <<")">>
      [] OTHER -> to_string(c.arg)

WhereFragments ==
    LET cs == SelectSeq(hist.calls, IsWhereCall)
    IN  [i \in DOMAIN cs |-> WhereFragment(cs[i])]

\* C3: the where-list holds the fragments of the where calls in call order,
\* duplicates kept, and build() renders WHERE, then those fragments in that
\* order with AND between each two and none after the last.
C3_WhereAccumulation ==
    kind = "select" =>
        /\ sel.where_conditions = WhereFragments
        /\ out.status = "ok" =>
              Segment(NoWs(out.text), {"WHERE"}, TailKw \ {"WHERE"})
                = IF WhereFragments = <<>> THEN <<>>
                  ELSE <<"WHERE">> \o
                       SepBy([i \in DOMAIN WhereFragments |-> NoWs(WhereFragments[i])],
                             <<"AND">>)

\* C3 witness: two different where fragments, rendered
C3_Witness ==
    /\ Rendered
    /\ Len(sel.where_conditions) = 2
    /\ sel.where_conditions[1] # sel.where_conditions[2]
    /\ sel.group_by # <<>>

\* the step is the call where_<f>_in(a) on the Select Builder
IsWhereInStep(f, a) ==
    /\ kind = "select"
    /\ nops' = nops + 1
    /\ hist'.calls = Append(hist.calls, WhereCall("where_field_in", FWT(f), <<>>, a))

\* C4: where_<col>_in with an argument whose string form is empty or only
\* whitespace gives back the builder with every field unchanged, so build()
\* is the same before and after; with any other argument it appends exactly
\* the one fragment '<qualified-column> IN (<value>)' to the where-list.
C4_WhereInBlankIsNoOp ==
    [][\A f \in Fields, a \in WhereIns :
          IsWhereInStep(f, a) =>
              IF Blank(to_string(a))
              THEN sel' = sel /\ select_build(sel') = select_build(sel)
              ELSE sel' = [sel EXCEPT !.where_conditions =
                              Append(@, FWT(f) \o <<" ", "IN", " ", "(">>
                                        \o to_string(a) \o <<")">>)]]_vars

\* C4 witness: where_<col>_in with a whitespace argument was called on a
\* builder that holds a where fragment
C4_Witness ==
    /\ kind = "select"
    /\ Len(hist.calls) = 2
    /\ hist.calls[2].op = "where_field_in"
    /\ to_string(hist.calls[2].arg) # <<>>
    /\ Blank(to_string(hist.calls[2].arg))
    /\ Len(sel.where_conditions) = 1

\* C5: the FROM clause holds the table name alone when the alias equals the
\* table name, and the table name followed by the alias, once, when it does
\* not, whatever joins and other clauses the builder holds.
C5_AliasSuppression ==
    Rendered =>
        Segment(NoWs(out.text), {"FROM"}, JoinKw \cup TailKw)
          = IF DeclaredAlias = schema.table_name
            THEN <<"FROM">> \o schema.table_name
            ELSE <<"FROM">> \o schema.table_name \o DeclaredAlias

\* C5 witness: a rendered statement with an alias, a join and a where clause
C5_Witness ==
    /\ Rendered
    /\ DeclaredAlias # schema.table_name
    /\ sel.joins # <<>>
    /\ sel.where_conditions # <<>>

\* the step is a call of build() on the Select Builder
IsBuildStep ==
    /\ kind = "select"
    /\ nops' = nops
    /\ out'.status = "ok"

\* C6: build() changes no field of the builder, and building an unmodified
\* builder again gives the same statement.
C6_BuildIsReadOnly ==
    /\ [][IsBuildStep => sel' = sel]_vars
    /\ [](Rendered => Ok(select_build(sel)) = out)

\* C6 witness: a builder with fragments in its lists and a limit has been
\* rendered and is still held unmodified
C6_Witness ==
    /\ Rendered
    /\ Len(sel.where_conditions) = 2
    /\ sel.order_by # <<>>
    /\ sel.limit = Some(10)

----------------------------------------------------------------------------
(* Reading a rendered INSERT or UPDATE statement *)

Min(S) == CHOOSE i \in S : \A j \in S : i <= j

NotSeparator(c) == c \notin {",", " "}

RECURSIVE QuotedValues(_)
\* the strings between each opening and closing quote of s
QuotedValues(s) ==
    LET q == Positions(s, {"'"})
    IN  IF Cardinality(q) < 2 THEN <<>>
        ELSE LET a == Min(q)
                 b == Min(q \ {a})
             IN  <<SubSeq(s, a + 1, b - 1)>> \o QuotedValues(SubSeq(s, b + 1, Len(s)))

RECURSIVE TuplesOf(_)
\* the parenthesised tuples of s, each as the sequence of its quoted values
TuplesOf(s) ==
    LET o == Positions(s, {"("})
    IN  IF o = {} THEN <<>>
        ELSE LET a == Min(o)
                 c == {j \in Positions(s, {")"}) : j > a}
             IN  IF c = {} THEN <<>>
                 ELSE <<QuotedValues(SubSeq(s, a + 1, Min(c) - 1))>>
                      \o TuplesOf(SubSeq(s, Min(c) + 1, Len(s)))

\* the column names of an INSERT statement, in the order listed
InsertKeys(t) == SelectSeq(Tail(Segment(t, {"("}, {")"})), NotSeparator)

\* the value tuples of an INSERT statement
InsertRows(t) == TuplesOf(Segment(t, {"VALUES"}, {}))

RECURSIVE PairsOf(_)
\* the <<column, value>> pairs of column = 'value', column = 'value', ...
PairsOf(s) ==
    IF Len(s) < 4 THEN <<>>
    ELSE LET b    == Min({j \in Positions(s, {"'"}) : j > 3})
             rest == SubSeq(s, b + 1, Len(s))
         IN  << <<s[1], SubSeq(s, 4, b - 1)>> >>
             \o PairsOf(IF rest # <<>> /\ rest[1] = "," THEN Tail(rest) ELSE rest)

\* the pairs of the SET clause of an UPDATE statement
SetPairs(t) == PairsOf(Tail(NoWs(Segment(t, {"SET"}, {"WHERE"}))))

RECURSIVE FirstWrites(_)
\* of the staging calls cs, the first one for each column, in call order
FirstWrites(cs) ==
    IF cs = <<>> THEN <<>>
    ELSE LET front == FirstWrites(SubSeq(cs, 1, Len(cs) - 1))
             last  == cs[Len(cs)]
         IN  IF \E i \in DOMAIN front : front[i].f = last.f
             THEN front ELSE Append(front, last)

IsInsertTo(c) == c.op = "insert_to"

IsUpdateWith(c) == c.op = "update_with_value"

InsertFirsts == FirstWrites(SelectSeq(hist.calls, IsInsertTo))

UpdateFirsts == FirstWrites(SelectSeq(hist.calls, IsUpdateWith))

\* the argument of the first staging call for column f
FirstValue(firsts, f) ==
    to_string(firsts[CHOOSE i \in DOMAIN firsts : firsts[i].f = f].arg)

InsertRendered == kind = "done" /\ hist.ctor = "insert" /\ out.status = "ok"

UpdateRendered == kind = "done" /\ hist.ctor = "update" /\ out.status = "ok"

----------------------------------------------------------------------------
(* Claims about the Insert and Update Builders *)

\* C7: with at least one column staged, Insert build() lists the column
\* names in first-write order and the value tuple in that same order.
C7_InsertFirstWriteOrder ==
    InsertRendered =>
        /\ InsertKeys(out.text) = [i \in DOMAIN InsertFirsts |-> InsertFirsts[i].f]
        /\ InsertRows(out.text) =
              << [i \in DOMAIN InsertFirsts |-> to_string(InsertFirsts[i].arg)] >>

\* the staged mapping m holds exactly the first value of every staged column
HoldsFirstValues(m, firsts, one) ==
    /\ Len(m) = Len(firsts)
    /\ \A i \in DOMAIN firsts : contains_key(m, <<firsts[i].f>>)
    /\ \A i \in DOMAIN m :
          m[i][2] = IF one THEN FirstValue(firsts, m[i][1][1])
                    ELSE <<FirstValue(firsts, m[i][1][1])>>

\* the step stages column f again
IsRestage(op, f, v) ==
    /\ hist'.calls = Append(hist.calls, StageCall(op, f, v))
    /\ \E i \in DOMAIN hist.calls : hist.calls[i].op = op /\ hist.calls[i].f = f

\* C8: staging is first-write-wins in the Insert and the Update Builder: the
\* value held for a column is the value of the first call that staged it, a
\* later staging call for that column leaves the whole builder unchanged, and
\* the rendered statement embeds the first value for each column.
C8_FirstWriteWins ==
    /\ [](hist.ctor = "insert" => HoldsFirstValues(ins.selected, InsertFirsts, FALSE))
    /\ [](hist.ctor = "update" => HoldsFirstValues(upd.selected, UpdateFirsts, TRUE))
    /\ [](InsertRendered =>
            LET ks == InsertKeys(out.text)
                rs == InsertRows(out.text)
            IN  /\ Len(rs) = 1
                /\ Len(rs[1]) = Len(ks)
                /\ {ks[j] : j \in DOMAIN ks} = {InsertFirsts[i].f : i \in DOMAIN InsertFirsts}
                /\ \A j \in DOMAIN ks : rs[1][j] = FirstValue(InsertFirsts, ks[j]))
    /\ [](UpdateRendered =>
            LET ps == SetPairs(out.text)
            IN  /\ Len(ps) = Len(UpdateFirsts)
                /\ {ps[j][1] : j \in DOMAIN ps} = {UpdateFirsts[i].f : i \in DOMAIN UpdateFirsts}
                /\ \A j \in DOMAIN ps : ps[j][2] = FirstValue(UpdateFirsts, ps[j][1]))
    /\ [][\A f \in Fields, v \in Values :
             /\ IsRestage("insert_to", f, v) => ins' = ins
             /\ IsRestage("update_with_value", f, v) => upd' = upd]_vars

\* C8 witness: a column staged twice with different values, then rendered
C8_Witness ==
    /\ InsertRendered
    /\ Len(hist.calls) = 3
    /\ hist.calls[1].f = hist.calls[3].f
    /\ hist.calls[1].arg # hist.calls[3].arg
    /\ hist.calls[2].f # hist.calls[1].f

\* C9: build() on an Insert Builder with no staged column fails with a
\* MalformedQuery error condition.
C9_EmptyInsertIsMalformedQuery ==
    (kind = "done" /\ hist.ctor = "insert" /\ ins.selected = <<>>) =>
        out.status = "MalformedQuery"

----------------------------------------------------------------------------
(* An Insert Builder written as a struct literal.  The generated struct's   *)
(* fields are private to the module the derive is used in, so code of that  *)
(* module can give `selected` any HashMap<String, Vec<String>>.             *)

StagedValues == {<<"a">>, <<"b">>}

RowVecs == UNION {[1..n -> StagedValues] : n \in 1..MaxRows}

\* the maps over the declared fields, in every iteration order
LiteralMaps ==
    {<<>>}
    \cup {<< <<field_name_without_table(f), v>> >> : f \in Fields, v \in RowVecs}
    \cup {<< <<field_name_without_table(f1), v1>>, <<field_name_without_table(f2), v2>> >> :
            <<f1, f2, v1, v2>> \in
                {x \in Fields \X Fields \X RowVecs \X RowVecs : x[1] # x[2]}}

InitRows ==
    /\ schema \in {sc \in Schemas : sc.fields # <<>>}
    /\ kind = "insert"
    /\ sel = NoSelect
    /\ ins \in {[selected |-> m, table |-> table(schema), limit |-> None,
                 order_by |-> <<>>] : m \in LiteralMaps}
    /\ upd = NoUpdate
    /\ del = NoDelete
    /\ out = NoOut
    /\ nops = 0
    /\ hist = [NoHist EXCEPT !.ctor = "struct literal"]

NextRows ==
    \/ InsertToField
    \/ InsertBuild

SpecRows == InitRows /\ [][NextRows]_vars

\* the staged columns hold value sequences of different lengths
Uneven(m) == \E i, j \in DOMAIN m : Len(m[i][2]) # Len(m[j][2])

----------------------------------------------------------------------------
(* Claims about the Update and Delete terminals *)

\* C11: both terminal calls of the Update Builder render one pair
\* column = 'value' per staged column, in first-write order of the columns.
C11_UpdateSetFirstWriteOrder ==
    UpdateRendered =>
        SetPairs(out.text) =
            [i \in DOMAIN UpdateFirsts |->
                <<UpdateFirsts[i].f, to_string(UpdateFirsts[i].arg)>>]

DeleteRendered == kind = "done" /\ hist.ctor = "delete" /\ out.status = "ok"

\* the terminal call that gave the statement
LastCall == hist.calls[Len(hist.calls)]

\* C12: delete_where_<col>_eq(value) renders DELETE FROM, the table, WHERE and
\* the bare column = 'value'; delete_where_str(raw) renders DELETE FROM, the
\* table, WHERE and raw; nothing but the table name and the arguments of the
\* terminal call enters the statement.
C12_DeleteRendering ==
    DeleteRendered =>
        /\ Len(hist.calls) = 1
        /\ LastCall.op = "delete_where_eq" =>
              NoWs(out.text) =
                  <<"DELETE FROM">> \o schema.table_name
                  \o <<"WHERE", LastCall.f, "=", "'">>
                  \o to_string(LastCall.arg) \o <<"'">>
        /\ LastCall.op = "delete_where_str" =>
              NoWs(out.text) =
                  <<"DELETE FROM">> \o schema.table_name
                  \o <<"WHERE">> \o to_string(LastCall.arg)

\* C12 witness: a delete by column rendered for a schema that declares an
\* alias and a primary key
C12_Witness ==
    /\ DeleteRendered
    /\ LastCall.op = "delete_where_eq"
    /\ LastCall.arg = U64(10)
    /\ schema.table_alias # None
    /\ schema.primary_key # None

----------------------------------------------------------------------------
(* Claims about the chaining operations of the Select Builder *)

\* the step is a chaining call on the Select Builder
IsChainStep == kind = "select" /\ nops' = nops + 1

SelectBuilderFields ==
    {"selected", "joins", "primary_key", "table", "table_alias", "limit",
     "where_conditions", "order_by", "group_by", "having"}

\* the fields a chaining call may write
WritableFields == SelectBuilderFields \ {"table", "table_alias", "primary_key"}

\* the fields in which the builder returned differs from the builder given
Changed == {k \in SelectBuilderFields : sel'[k] # sel[k]}

\* the step is where_<col>_in with a blank argument
IsBlankWhereInStep ==
    /\ Len(hist'.calls) = Len(hist.calls) + 1
    /\ hist'.calls[Len(hist'.calls)].op = "where_field_in"
    /\ Blank(to_string(hist'.calls[Len(hist'.calls)].arg))

\* the step is limit(n) on a builder whose limit is n already
IsSameLimitStep ==
    \E n \in Limits : hist'.limits = Append(hist.limits, n) /\ sel.limit = Some(n)

\* C13 as stated: every chaining call gives a builder that differs from the
\* one it was called on in exactly one field, one of the selected string, the
\* five fragment lists and the limit.
C13_ExactlyOneFieldChanges ==
    [][IsChainStep => Cardinality(Changed) = 1 /\ Changed \subseteq WritableFields]_vars

\* C13 amended: every chaining call gives a builder that differs from the one
\* it was called on in at most one field, one of the selected string, the five
\* fragment lists and the limit, and in none only for where_<col>_in with a
\* blank argument and for limit(n) on a builder whose limit is n already; the
\* builder it was called on is a value the call does not change.
C13_AtMostOneFieldChanges ==
    [][IsChainStep =>
          /\ Cardinality(Changed) <= 1
          /\ Changed \subseteq WritableFields
          /\ Changed = {} => IsBlankWhereInStep \/ IsSameLimitStep]_vars

\* C13 witness: two chaining calls of different kinds made on a builder with
\* a declared alias and primary key
C13_Witness ==
    /\ kind = "select"
    /\ nops = 2
    /\ sel.joins # <<>>
    /\ sel.limit # None
    /\ schema.table_alias # None
    /\ schema.primary_key # None

\* C14: in every Select Builder state, whatever constructor made the builder
\* and whatever was chained on it, the selected string is not empty.
C14_SelectedNeverEmpty ==
    kind = "select" => sel.selected # <<>>

----------------------------------------------------------------------------
(* Claims about the staged mapping of the Insert and Update Builders *)

RECURSIVE InsertRuns(_)
\* the Insert Builders a fresh builder can become by the staging calls cs
InsertRuns(cs) ==
    IF cs = <<>> THEN {insert(schema)}
    ELSE LET last == cs[Len(cs)]
         IN  UNION { insert_to_field(b, last.f, last.arg) :
                       b \in InsertRuns(SubSeq(cs, 1, Len(cs) - 1)) }

RECURSIVE UpdateRuns(_)
\* the Update Builders a fresh builder can become by the staging calls cs
UpdateRuns(cs) ==
    IF cs = <<>> THEN {update(schema)}
    ELSE LET last == cs[Len(cs)]
         IN  UNION { update_field_with_value(b, last.f, last.arg) :
                       b \in UpdateRuns(SubSeq(cs, 1, Len(cs) - 1)) }

\* the statement the terminal call c gives on the Update Builder b
UpdateTerminal(b, c) ==
    IF c.op = "update_where_eq" THEN update_where_field_eq(b, c.f, c.arg)
    ELSE update_where_str(b, to_string(c.arg))

\* C15: a second fresh builder of the same record type given the same staging
\* calls and the same terminal call renders the statement this one rendered.
C15_DeterministicRendering ==
    /\ InsertRendered =>
          \A b \in InsertRuns(SelectSeq(hist.calls, IsInsertTo)) :
              insert_build(b) = out
    /\ UpdateRendered =>
          \A b \in UpdateRuns(SelectSeq(hist.calls, IsUpdateWith)) :
              UpdateTerminal(b, LastCall) = out

----------------------------------------------------------------------------
(* Claims about the joins, HAVING and LIMIT of the Select Builder *)

\* the keyword of a join fragment: what follows its leading newline
JoinKeyword(fragment) == fragment[2]

\* the keyword of the i-th join fragment, for each join call of kind op
KeywordOf(op, kw) ==
    \A i \in DOMAIN hist.joins :
        hist.joins[i].op = op => JoinKeyword(sel.joins[i]) = kw

\* C16 as stated: the fragment of every full-join call, full_join and
\* full_join_by_<col> alike, has the keyword RIGHT JOIN.
C16_FullJoinRendersRightJoin ==
    kind = "select" =>
        /\ Len(sel.joins) = Len(hist.joins)
        /\ KeywordOf("full_join", "RIGHT JOIN")
        /\ KeywordOf("full_join_by_field", "RIGHT JOIN")

\* C16 amended: the fragment of a full_join call (primary-key form) has the
\* keyword RIGHT JOIN, and the fragment of a full_join_by_<col> call has the
\* keyword FULL JOIN.
C16_FullJoinKeywords ==
    kind = "select" =>
        /\ Len(sel.joins) = Len(hist.joins)
        /\ KeywordOf("full_join", "RIGHT JOIN")
        /\ KeywordOf("full_join_by_field", "FULL JOIN")

\* C16 witness: a full join of each form has been made
C16_Witness ==
    /\ kind = "select"
    /\ \E i \in DOMAIN hist.joins : hist.joins[i].op = "full_join"
    /\ \E i \in DOMAIN hist.joins : hist.joins[i].op = "full_join_by_field"

PrimaryKeyJoinOps == {"join", "inner_join", "left_join", "right_join", "full_join"}

\* <KIND> JOIN of a join call
KindOf(op) ==
    CASE op \in {"join", "join_by_field"}             -> "JOIN"
      [] op \in {"inner_join", "inner_join_by_field"} -> "INNER JOIN"
      [] op \in {"left_join", "left_join_by_field"}   -> "LEFT JOIN"
      [] op \in {"right_join", "right_join_by_field"} -> "RIGHT JOIN"
      [] op = "full_join"                             -> "RIGHT JOIN"
      [] op = "full_join_by_field"                    -> "FULL JOIN"

\* the declared primary key, empty when none is declared
DeclaredPrimaryKey ==
    IF schema.primary_key = None THEN <<>> ELSE schema.primary_key[1]

\* the tokens of the fragment the join call c is to append
JoinFragment(c) ==
    IF c.op = "join_str" THEN NoWs(c.tbl)
    ELSE <<KindOf(c.op)>> \o c.tbl \o <<"ON">> \o c.tbl \o <<".">> \o c.key
         \o <<"=">>
         \o (IF c.op \in PrimaryKeyJoinOps
             THEN DeclaredAlias \o <<".">> \o DeclaredPrimaryKey
             ELSE c.on)

RECURSIVE JoinFragments(_)
JoinFragments(cs) ==
    IF cs = <<>> THEN <<>> ELSE JoinFragment(Head(cs)) \o JoinFragments(Tail(cs))

\* C17: a primary-key join is made only on a schema with a non-empty primary
\* key; each appends <KIND> JOIN <table> ON <table>.<key> = <alias>.<primaryKey>
\* with the declared alias, or the table name when none is declared, so the
\* fragment never ends in an empty primary-key name; the joins of all forms
\* are held and rendered in call order.
C17_PrimaryKeyJoins ==
    kind = "select" =>
        /\ Len(sel.joins) = Len(hist.joins)
        /\ \A i \in DOMAIN hist.joins :
              /\ NoWs(sel.joins[i]) = JoinFragment(hist.joins[i])
              /\ hist.joins[i].op \in PrimaryKeyJoinOps =>
                    /\ DeclaredPrimaryKey # <<>>
                    /\ sel.joins[i][Len(sel.joins[i])] # "."
        /\ out.status = "ok" =>
              NoWs(Segment(out.text, JoinKw, TailKw)) = JoinFragments(hist.joins)

\* C17 witness: a primary-key join and a field-scoped join rendered, in that
\* order, on a schema that declares an alias
C17_Witness ==
    /\ Rendered
    /\ schema.table_alias # None
    /\ Len(hist.joins) = 2
    /\ hist.joins[1].op = "left_join"
    /\ hist.joins[2].op = "inner_join_by_field"

\* the HAVING clause of a rendered statement, without its whitespace
HavingClause == Segment(NoWs(out.text), {"HAVING"}, {"ORDER BY", "LIMIT"})

\* C18: with n >= 1 having-conditions, build() renders HAVING, then the n
\* conditions in list order with AND between each two: n - 1 AND tokens and
\* none after the last condition.
C18_HavingSeparators ==
    (Rendered /\ sel.having # <<>>) =>
        /\ HavingClause =
              <<"HAVING">> \o
              SepBy([i \in DOMAIN sel.having |-> NoWs(sel.having[i])], <<"AND">>)
        /\ Cardinality(Positions(HavingClause, {"AND"})) = Len(sel.having) - 1
        /\ HavingClause[Len(HavingClause)] # "AND"

\* C18 witness: two having-conditions rendered, with an ORDER BY after them
C18_Witness ==
    /\ Rendered
    /\ Len(sel.having) = 2
    /\ sel.order_by # <<>>

\* the argument of the last limit call
LastLimit == hist.limits[Len(hist.limits)]

\* C19: once limit has been called, the limit field holds the argument of the
\* last limit call, whatever was called between and after the limit calls,
\* and build() renders one LIMIT clause, with that value.
C19_LastLimitWins ==
    (kind = "select" /\ hist.limits # <<>>) =>
        /\ sel.limit = Some(LastLimit)
        /\ out.status = "ok" =>
              /\ Cardinality(Positions(out.text, {"LIMIT"})) = 1
              /\ NoWs(Segment(out.text, {"LIMIT"}, {})) = <<"LIMIT">> \o DecStr(LastLimit)

\* C19 witness: two limit calls with different arguments and where calls
\* besides them, rendered
C19_Witness ==
    /\ Rendered
    /\ Len(hist.limits) = 2
    /\ hist.limits[1] # hist.limits[2]
    /\ Len(sel.where_conditions) = 2
    /\ sel.order_by # <<>>

\* an Insert Builder has been rendered to a statement
InsertStatement ==
    kind = "done" /\ hist.ctor \in {"insert", "struct literal"} /\ out.status = "ok"

\* C20: in the output of Insert build(), the value at position j of every
\* tuple is the value staged, for that row, for the column named at position
\* j of the column list.
C20_KeysAndTuplesAligned ==
    InsertStatement =>
        LET ks == InsertKeys(out.text)
            rs == InsertRows(out.text)
        IN  /\ Len(ks) = Len(ins.selected)
            /\ rs # <<>>
            /\ \A r \in DOMAIN rs :
                  /\ Len(rs[r]) = Len(ks)
                  /\ \A j \in DOMAIN ks :
                        \E i \in DOMAIN ins.selected :
                            /\ ins.selected[i][1] = <<ks[j]>>
                            /\ rs[r][j] = ins.selected[i][2][r]

\* C20 witness: two columns staged with different values, rendered
C20_Witness ==
    /\ InsertStatement
    /\ Len(ins.selected) = 2
    /\ ins.selected[1][2] # ins.selected[2][2]

\* the step is limit or an order_by_<col> form on the Insert Builder
IsInsertLimitOrOrderStep ==
    /\ kind = "insert"
    /\ nops' = nops + 1
    /\ hist'.calls = hist.calls

\* C21: on an Insert Builder made by insert() and the generated operations,
\* every staged column holds exactly one value; build() with at least one
\* staged column gives a statement with exactly one value tuple; limit and
\* the order_by_<col> forms change no staged value and not what build() gives.
C21_OneValuePerColumn ==
    /\ [](hist.ctor = "insert" =>
            \A i \in DOMAIN ins.selected : Len(ins.selected[i][2]) = 1)
    /\ []((kind = "done" /\ hist.ctor = "insert" /\ ins.selected # <<>>) =>
            /\ out.status = "ok"
            /\ Len(InsertRows(out.text)) = 1)
    /\ [][IsInsertLimitOrOrderStep =>
            /\ ins'.selected = ins.selected
            /\ insert_build(ins') = insert_build(ins)]_vars

\* C21 witness: a column staged, a limit and an ordering given, then rendered
C21_Witness ==
    /\ InsertRendered
    /\ Len(ins.selected) = 1
    /\ ins.limit # None
    /\ ins.order_by # <<>>

====
